---- MODULE Spec2Model ----
(***************************************************************************)
(* Request-to-candidate-stream resolution of the HQ streams aggregator.   *)
(*                                                                         *)
(* Four variants of the same handler are modelled:                         *)
(*   "express"  src/index.js 223-417    GET /stream/:type/:id.json         *)
(*   "legacy"   src/index.js 80-165     GET /:type/:id/streams.json        *)
(*   "vercel"   src/unnamed/part_000    api/streams.js (serverless)        *)
(*   "addon"    src/addon/index.js      defineStreamHandler                *)
(*                                                                         *)
(* JavaScript strings are sequences of one-character strings; a literal   *)
(* of the source that is never inspected (a base URL, "?imdb=") is one     *)
(* element of such a sequence.  A JavaScript value is a record [k, s]:     *)
(* k is its kind ("str", "null", "undefined", "array"), s its characters.  *)
(***************************************************************************)
EXTENDS Integers, Sequences, FiniteSets

VARIABLES providers, req, imdbId, tmdbId, season, episode, streams, threw,
          responses, memo

\* memo is a history variable, not program state: an earlier stream request
\* and the responses it got.
vars == <<providers, req, imdbId, tmdbId, season, episode, streams, threw,
          responses, memo>>

\* ------------------------------------------------------------------ bounds
\* Longest id body (the characters after the id's prefix).
MaxBody == 5
\* Longest candidate list handed to the quality filter on its own.
MaxCands == 2

\* ------------------------------------------------------- JavaScript values
Str(s) == [k |-> "str", s |-> s]
Null == [k |-> "null", s |-> <<>>]
Undefined == [k |-> "undefined", s |-> <<>>]
\* A repeated query parameter (?id=a&id=b) arrives as an array.
ArrayVal == [k |-> "array", s |-> <<>>]

\* Mutant: the guard tests `=== undefined` instead of falsiness.
TruthyUnlessUndefined(v) == v.k # "undefined"

\* ToBoolean: null, undefined and "" are falsy; an array is truthy.
Truthy(v) == \/ v.k = "array"
             \/ v.k = "str" /\ v.s # <<>>

\* a || b
Or(a, b) == IF Truthy(a) THEN a ELSE b

\* Conversion of a value inside a template literal `${v}`.
TemplateStr(v) ==
  CASE v.k = "null" -> <<"n", "u", "l", "l">>
    [] v.k = "undefined" -> <<"u", "n", "d", "e", "f", "i", "n", "e", "d">>
    [] OTHER -> v.s

\* s.startsWith(p)
StartsWith(s, p) == /\ Len(s) >= Len(p)
                    /\ SubSeq(s, 1, Len(p)) = p

\* Occurrence of p in s at position i.
OccursAt(s, p, i) == /\ i + Len(p) - 1 <= Len(s)
                     /\ SubSeq(s, i, i + Len(p) - 1) = p

\* s.includes(p)
Includes(s, p) == \E i \in 1..(Len(s) + 1) : OccursAt(s, p, i)

\* s.replace(p, ''): the first occurrence of p is removed.
Replace(s, p) ==
  IF ~Includes(s, p) THEN s
  ELSE LET i == CHOOSE j \in 1..(Len(s) + 1) :
                  /\ OccursAt(s, p, j)
                  /\ \A h \in 1..(j - 1) : ~OccursAt(s, p, h)
       IN SubSeq(s, 1, i - 1) \o SubSeq(s, i + Len(p), Len(s))

\* s.split(c) for a one-character separator c: the list of segments.
RECURSIVE Split(_, _)
Split(s, c) ==
  IF ~Includes(s, <<c>>) THEN <<s>>
  ELSE LET i == CHOOSE j \in 1..Len(s) :
                  /\ s[j] = c
                  /\ \A h \in 1..(j - 1) : s[h] # c
       IN <<SubSeq(s, 1, i - 1)>> \o Split(SubSeq(s, i + 1, Len(s)), c)

\* Mutant: the segment index is off by one.
AtShifted(parts, i) ==
  IF i + 1 <= Len(parts) THEN Str(parts[i + 1]) ELSE Undefined

\* parts[i - 1] of a JavaScript array: undefined past its end.
At(parts, i) == IF i <= Len(parts) THEN Str(parts[i]) ELSE Undefined

\* --------------------------------------------------------------- constants
TmdbPrefix == <<"t", "m", "d", "b", ":">>
Q1080p == <<"1", "0", "8", "0", "p">>
Q4K == <<"4", "K">>
Movie == Str(<<"movie">>)
Series == Str(<<"series">>)

\* The providers in the order the handlers build them.
ProviderOrder == <<"vidsrc", "godrive", "autoembed", "tmdbembed">>
ProviderKeys == {"vidsrc", "godrive", "autoembed", "tmdbembed"}

\* The display name each handler hard-codes for a provider.
ProviderName(p) ==
  CASE p = "vidsrc" -> "VidSrc"
    [] p = "godrive" -> "GoDrivePlayer"
    [] p = "autoembed" -> "AutoEmbed"
    [] p = "tmdbembed" -> "TMDB-Embed"

\* const providers = {...}
ProviderTable ==
  [vidsrc |-> [movieUrl |-> <<"https://vidsrc.to/embed/movie">>,
               seriesUrl |-> <<"https://vidsrc.to/embed/tv">>,
               quality |-> <<"1080p", "4K">>,
               features |-> <<"subtitles", "auto_update">>],
   godrive |-> [movieUrl |-> <<"https://godriveplayer.com/player.php">>,
                seriesUrl |-> <<"https://godriveplayer.com/player.php">>,
                quality |-> <<"1080p">>,
                features |-> <<"fast_servers", "responsive">>],
   autoembed |-> [movieUrl |-> <<"https://autoembed.cc/embed/movie">>,
                  seriesUrl |-> <<"https://autoembed.cc/embed/tv">>,
                  quality |-> <<"1080p", "4K">>,
                  features |-> <<"free_api">>],
   tmdbembed |-> [movieUrl |-> <<"https://api.tmdbembed.org/embed/movie">>,
                  seriesUrl |-> <<"https://api.tmdbembed.org/embed/tv">>,
                  quality |-> <<"1080p", "4K">>,
                  features |-> <<"multi_source">>]]

\* Whether the identifier `providers` is declared in the variant's file.
\* src/addon/index.js uses providers.<key>.<url> and never declares it, so
\* every use there raises a ReferenceError inside the provider's try block.
ProvidersInScope(variant) == variant # "addon"
\* ------------------------------------------------ per-provider try blocks
\* A provider's try block throws when its URL construction is made to fail
\* (req.faults) or when `providers` is not in scope; the catch logs, and the
\* push that follows the construction is skipped.
Throws(r, p) == p \in r.faults \/ ~ProvidersInScope(r.variant)

\* try { const url = ...; streams.push(stream) } catch (error) { log }
TryPush(r, p, stream) == IF Throws(r, p) THEN <<>> ELSE <<stream>>

\* Mutant: one try block around all four constructions, so the first throw
\* skips every later provider.
RECURSIVE PushUntilThrow(_, _, _)
PushUntilThrow(r, ss, i) ==
  IF i > Len(ProviderOrder) \/ Throws(r, ProviderOrder[i]) THEN <<>>
  ELSE <<ss[ProviderOrder[i]]>> \o PushUntilThrow(r, ss, i + 1)

BuildAllOneTry(r, ss) == PushUntilThrow(r, ss, 1)

\* The four try blocks in source order; ss[p] is the stream provider p pushes.
BuildAll(r, ss) ==
  TryPush(r, "vidsrc", ss["vidsrc"]) \o TryPush(r, "godrive", ss["godrive"])
    \o TryPush(r, "autoembed", ss["autoembed"])
    \o TryPush(r, "tmdbembed", ss["tmdbembed"])

ThrewSet(r) == {p \in ProviderKeys : Throws(r, p)}

\* ----------------------------------------------------------- responses
Json(status, key, streamList) ==
  [status |-> status, body |-> key, streams |-> streamList]

\* res.status(400).json({ error: 'Missing type or id parameter' })
MissingParam == Json("400", "error: Missing type or id parameter", <<>>)

\* What a handler leaves behind: its locals and the responses it sent.
Outcome(ids, streamList, thrown, sent) ==
  [imdbId |-> ids.imdbId, tmdbId |-> ids.tmdbId, season |-> ids.season,
   episode |-> ids.episode, streams |-> streamList, threw |-> thrown,
   responses |-> sent]

\* Mutant: the outer catch answers 200.
GeneralErrorOk == Json("200", "streams", <<>>)

\* catch (error) { res.status(500).json({ streams: [] }) }
GeneralError == Json("500", "streams", <<>>)

\* Locals that were never declared or assigned.
NoIds == [imdbId |-> Undefined, tmdbId |-> Undefined, season |-> Undefined,
          episode |-> Undefined]

\* ------------------------------------------------ express: /stream/:type/:id.json
\* Mutant: the colon rule is tried before the tmdb: rule.
ParseIdColonFirst(id) ==
  IF Includes(id.s, <<":">>)
  THEN LET parts == Split(id.s, ":")
       IN [imdbId |-> At(parts, 1), tmdbId |-> Null,
           season |-> At(parts, 2), episode |-> At(parts, 3)]
  ELSE IF StartsWith(id.s, TmdbPrefix)
  THEN [imdbId |-> id, tmdbId |-> Str(Replace(id.s, TmdbPrefix)),
        season |-> Null, episode |-> Null]
  ELSE [imdbId |-> id, tmdbId |-> Null, season |-> Null, episode |-> Null]

\* Mutant: the startsWith guard is dropped and the prefix is always replaced.
ParseIdNoPrefixTest(id) ==
  [imdbId |-> id, tmdbId |-> Str(Replace(id.s, TmdbPrefix)),
   season |-> Null, episode |-> Null]

\* let imdbId = id; let tmdbId = null; let season = null; let episode = null;
\* if (id.startsWith('tmdb:')) ... else if (id.includes(':')) ...
ParseId(id) ==
  IF StartsWith(id.s, TmdbPrefix)
  THEN [imdbId |-> id, tmdbId |-> Str(Replace(id.s, TmdbPrefix)),
        season |-> Null, episode |-> Null]
  ELSE IF Includes(id.s, <<":">>)
  THEN LET parts == Split(id.s, ":")
       IN [imdbId |-> At(parts, 1), tmdbId |-> Null,
           season |-> At(parts, 2), episode |-> At(parts, 3)]
  ELSE [imdbId |-> id, tmdbId |-> Null, season |-> Null, episode |-> Null]

\* Mutant: the series branch is taken whatever the type.
SeriesBranchAnyType(type, ids) ==
  Truthy(ids.season) /\ Truthy(ids.episode)

\* type === 'series' && season && episode
SeriesBranch(type, ids) ==
  type = Series /\ Truthy(ids.season) /\ Truthy(ids.episode)

\* The URL each try block of the express handler constructs.
ExpressUrl(p, type, ids) ==
  LET cfg == providers[p]
      ttId == TemplateStr(ids.imdbId)
      anyId == TemplateStr(Or(ids.tmdbId, ids.imdbId))
      se == <<"/">> \o TemplateStr(ids.season) \o <<"/">>
              \o TemplateStr(ids.episode)
  IN IF SeriesBranch(type, ids)
     THEN CASE p = "vidsrc" -> cfg.seriesUrl \o <<"/">> \o ttId \o se
            [] p = "godrive" ->
                 cfg.seriesUrl \o <<"?tmdb=">> \o anyId
                   \o <<"&", "season=">> \o TemplateStr(ids.season)
                   \o <<"&", "episode=">> \o TemplateStr(ids.episode)
            [] p = "autoembed" -> cfg.seriesUrl \o <<"/">> \o ttId \o se
            [] p = "tmdbembed" -> cfg.seriesUrl \o <<"/">> \o anyId \o se
     ELSE CASE p = "vidsrc" ->
                 IF type = Movie THEN cfg.movieUrl \o <<"/">> \o ttId
                 ELSE cfg.seriesUrl \o <<"/">> \o ttId
            [] p = "godrive" ->
                 IF type = Movie THEN cfg.movieUrl \o <<"?imdb=">> \o ttId
                 ELSE cfg.seriesUrl \o <<"?tmdb=">> \o anyId
                        \o <<"&", "season=", "1", "&", "episode=", "1">>
            [] p = "autoembed" ->
                 IF type = Movie THEN cfg.movieUrl \o <<"/">> \o ttId
                 ELSE cfg.seriesUrl \o <<"/">> \o ttId
            [] p = "tmdbembed" ->
                 IF type = Movie THEN cfg.movieUrl \o <<"/">> \o anyId
                 ELSE cfg.seriesUrl \o <<"/">> \o anyId

\* The quality each try block writes into the stream's title.
TitleQuality(p) == IF p = "tmdbembed" THEN Q4K ELSE Q1080p

\* The object literal pushed by an express try block.  It carries no
\* technicalDetails, hence no resolution.
ExpressStream(p, type, ids) ==
  [name |-> <<ProviderName(p)>>,
   title |-> <<ProviderName(p), " - ">> \o TitleQuality(p),
   url |-> ExpressUrl(p, type, ids),
   bingeGroup |-> ProviderName(p),
   resolution |-> Undefined]

\* Mutant: the 400 branch lacks its `return`, so the handler body runs on
\* after the 400 response and answers a second time.
HandleExpressNoReturn(r) ==
  LET ids == ParseId(r.id)
      S == [p \in ProviderKeys |-> ExpressStream(p, r.type, ids)]
      built == BuildAll(r, S)
      rest == IF r.id.k # "str"
              THEN Outcome([imdbId |-> r.id, tmdbId |-> Null,
                            season |-> Null, episode |-> Null],
                           <<>>, {"general"}, <<GeneralError>>)
              ELSE Outcome(ids, built, ThrewSet(r),
                           <<Json("200", "streams", built)>>)
  IN IF ~Truthy(r.type) \/ ~Truthy(r.id)
     THEN [rest EXCEPT !.responses = <<MissingParam>> \o @]
     ELSE rest

\* The whole express handler.
HandleExpress(r) ==
  IF ~Truthy(r.type) \/ ~Truthy(r.id)
  THEN Outcome(NoIds, <<>>, {}, <<MissingParam>>)
  ELSE IF r.id.k # "str"
  \* id.startsWith is not a function: TypeError, caught by the outer catch.
  THEN Outcome([imdbId |-> r.id, tmdbId |-> Null, season |-> Null,
                episode |-> Null],
               <<>>, {"general"}, <<GeneralError>>)
  ELSE LET ids == ParseId(r.id)
           S == [p \in ProviderKeys |-> ExpressStream(p, r.type, ids)]
           built == BuildAll(r, S)
       IN Outcome(ids, built, ThrewSet(r), <<Json("200", "streams", built)>>)
\* ------------------------------------------------ addon: defineStreamHandler
\* The stream an addon try block would push.  Its templates read
\* providers.<key>, so with `providers` out of scope it is never built.
AddonUrl(p, type, ids) ==
  LET ttId == TemplateStr(ids.imdbId)
  IN IF SeriesBranch(type, ids) THEN ExpressUrl(p, type, ids)
     ELSE CASE p = "godrive" /\ type # Movie ->
                 providers[p].seriesUrl \o <<"?tmdb=">> \o ttId
                   \o <<"&", "season=", "1", "&", "episode=", "1">>
            [] p = "tmdbembed" /\ type = Movie ->
                 providers[p].movieUrl \o <<"/">>
                   \o TemplateStr(Or(ids.imdbId, ids.imdbId))
            [] OTHER -> ExpressUrl(p, type, ids)

AddonStream(p, type, ids) ==
  [ExpressStream(p, type, ids) EXCEPT !.url = AddonUrl(p, type, ids)]

\* The whole addon handler: it returns a list and sets no status.
Returned(streamList) == Json("none", "list", streamList)

HandleAddon(r) ==
  IF ~Truthy(r.type) \/ ~Truthy(r.id)
  THEN Outcome(NoIds, <<>>, {}, <<Returned(<<>>)>>)
  ELSE IF r.id.k # "str"
  THEN Outcome([imdbId |-> r.id, tmdbId |-> Null, season |-> Null,
                episode |-> Null],
               <<>>, {"general"}, <<Returned(<<>>)>>)
  ELSE LET ids == ParseId(r.id)
           S == [p \in ProviderKeys |-> AddonStream(p, r.type, ids)]
           built == BuildAll(r, S)
       IN Outcome(ids, built, ThrewSet(r), <<Returned(built)>>)

\* ------------------------------------------------ vercel and legacy handlers
\* let imdbId = id; let tmdbId = null; if (id.startsWith('tmdb:')) ...
\* These handlers declare no season and no episode.
ParseIdLegacy(id) ==
  [imdbId |-> id,
   tmdbId |-> IF StartsWith(id.s, TmdbPrefix)
              THEN Str(Replace(id.s, TmdbPrefix)) ELSE Null,
   season |-> Undefined, episode |-> Undefined]

LegacyUrl(p, type, ids) ==
  LET cfg == providers[p]
      ttId == TemplateStr(ids.imdbId)
      anyId == TemplateStr(Or(ids.tmdbId, ids.imdbId))
  IN CASE p = "vidsrc" ->
            IF type = Movie THEN cfg.movieUrl \o <<"/">> \o ttId
            ELSE cfg.seriesUrl \o <<"/">> \o ttId
       [] p = "godrive" ->
            IF type = Movie THEN cfg.movieUrl \o <<"?imdb=">> \o ttId
            ELSE cfg.seriesUrl \o <<"?tmdb=">> \o TemplateStr(ids.tmdbId)
                   \o <<"&", "season=", "1", "&", "episode=", "1">>
       [] p = "autoembed" ->
            IF type = Movie THEN cfg.movieUrl \o <<"/">> \o ttId
            ELSE cfg.seriesUrl \o <<"/">> \o ttId
       [] p = "tmdbembed" ->
            IF type = Movie THEN cfg.movieUrl \o <<"/">> \o anyId
            ELSE cfg.seriesUrl \o <<"/">> \o anyId

\* function enrichStreamInfo(stream, providerName, sourceUrl); stream is
\* the quality a caller passes (undefined when it passes none).
EnrichStreamInfo(quality, providerName, sourceUrl) ==
  [name |-> <<providerName, " - ">>
              \o TemplateStr(Or(quality, Str(<<"H", "D">>))),
   title |-> <<providerName, " Stream">>,
   url |-> sourceUrl,
   bingeGroup |-> providerName,
   resolution |-> Or(quality, Str(Q1080p))]

\* Mutant: one provider declares a label the filter does not accept.
DeclaredQualityHd(p) ==
  IF p = "tmdbembed" THEN Str(<<"H", "D">>) ELSE Str(Q1080p)

\* The quality each try block passes to enrichStreamInfo.
DeclaredQuality(p) == IF p = "tmdbembed" THEN Str(Q4K) ELSE Str(Q1080p)

LegacyStream(p, type, ids) ==
  EnrichStreamInfo(DeclaredQuality(p), ProviderName(p),
                   LegacyUrl(p, type, ids))

\* stream.technicalDetails.resolution === '1080p' || ... === '4K'
IsHq(stream) == \/ stream.resolution = Str(Q1080p)
                \/ stream.resolution = Str(Q4K)

\* streams.filter(stream => ...)
HqFilter(list) == SelectSeq(list, IsHq)

\* From `const streams = []` to the end of the try/catch; the same text in
\* api/streams.js and in the legacy route.
ResolveLegacy(r) ==
  IF ~Truthy(r.type) \/ ~Truthy(r.id)
  THEN Outcome(NoIds, <<>>, {}, <<MissingParam>>)
  ELSE IF r.id.k # "str"
  THEN Outcome([imdbId |-> r.id, tmdbId |-> Null, season |-> Undefined,
                episode |-> Undefined],
               <<>>, {"general"}, <<GeneralError>>)
  ELSE LET ids == ParseIdLegacy(r.id)
           S == [p \in ProviderKeys |-> LegacyStream(p, r.type, ids)]
           built == BuildAll(r, S)
       IN Outcome(ids, built, ThrewSet(r),
                  <<Json("200", "streams", HqFilter(built))>>)

\* if (req.method === 'OPTIONS') { res.status(200).end(); return; }
Preflight == Json("200", "none", <<>>)

\* The whole serverless handler.
HandleVercel(r) ==
  IF r.method = "OPTIONS" THEN Outcome(NoIds, <<>>, {}, <<Preflight>>)
  ELSE ResolveLegacy(r)

\* The whole legacy route handler.
HandleLegacy(r) == ResolveLegacy(r)

\* ------------------------------------------------ health
\* { status: 'healthy', timestamp, providers: [...] }
Healthy == Json("200", "healthy", <<>>)

HandleHealth(r) ==
  IF r.variant = "vercel-health" /\ r.method = "OPTIONS"
  THEN Outcome(NoIds, <<>>, {}, <<Preflight>>)
  ELSE Outcome(NoIds, <<>>, {}, <<Healthy>>)
\* ------------------------------------------------ requests
BodyChars == {"1", "2", ":"}
Bodies == UNION {[1..n -> BodyChars] : n \in 0..MaxBody}
Prefixes == {<<>>, <<"t", "t">>, TmdbPrefix, <<"t", "m", "d", "b">>}
IdStrings == {p \o b : p \in Prefixes, b \in Bodies}
IdVals == {Str(x) : x \in IdStrings} \cup {Undefined, ArrayVal}
\* The ids of the requests whose URL construction is made to fail.
FaultBodies == UNION {[1..n -> {"1", ":"}] : n \in 0..MaxBody}
FaultIdVals ==
  {Str(p \o b) : p \in {<<"t", "t">>, TmdbPrefix}, b \in FaultBodies}
    \cup {Undefined, ArrayVal}
TypeVals == {Movie, Series, Str(<<"tv">>), Str(<<>>), Undefined}

StreamEndpoints ==
  {[variant |-> "express", method |-> "GET"],
   [variant |-> "legacy", method |-> "GET"],
   [variant |-> "vercel", method |-> "GET"],
   [variant |-> "vercel", method |-> "OPTIONS"],
   [variant |-> "addon", method |-> "GET"]}

HealthEndpoints ==
  {[variant |-> "health", method |-> "GET"],
   [variant |-> "vercel-health", method |-> "GET"],
   [variant |-> "vercel-health", method |-> "OPTIONS"]}

NoReq == [variant |-> "none", method |-> "GET", type |-> Undefined,
          id |-> Undefined, faults |-> {}]

Idle == /\ req = NoReq
        /\ imdbId = Undefined /\ tmdbId = Undefined
        /\ season = Undefined /\ episode = Undefined
        /\ streams = <<>> /\ threw = {} /\ responses = <<>>

NoMemo == [req |-> NoReq, responses |-> <<>>]

Init == providers = ProviderTable /\ Idle /\ memo = NoMemo

Fresh == /\ imdbId' = Undefined /\ tmdbId' = Undefined
         /\ season' = Undefined /\ episode' = Undefined
         /\ streams' = <<>> /\ threw' = {} /\ responses' = <<>>

\* A stream request arrives with an id of Ids; FaultSets are the sets of
\* providers whose URL construction may be made to throw during it.
Receive(FaultSets, Ids) ==
  /\ req = NoReq
  /\ \E e \in StreamEndpoints, t \in TypeVals, i \in Ids, F \in FaultSets :
       req' = [variant |-> e.variant, method |-> e.method, type |-> t,
               id |-> i, faults |-> F]
  /\ Fresh
  /\ UNCHANGED <<providers, memo>>

ReceiveNominal == Receive({{}}, IdVals)

ReceiveFaulty == Receive(SUBSET ProviderKeys, FaultIdVals)

ReceiveHealth ==
  /\ req = NoReq
  /\ \E e \in HealthEndpoints :
       req' = [variant |-> e.variant, method |-> e.method, type |-> Undefined,
               id |-> Undefined, faults |-> {}]
  /\ Fresh
  /\ UNCHANGED <<providers, memo>>

\* Mutant: a handler run overwrites an entry of the provider table.
ApplyOverwritingTable(o) ==
  /\ imdbId' = o.imdbId /\ tmdbId' = o.tmdbId
  /\ season' = o.season /\ episode' = o.episode
  /\ streams' = o.streams /\ threw' = o.threw
  /\ responses' = o.responses
  /\ providers' = [providers EXCEPT
                     !.vidsrc.movieUrl = providers.vidsrc.seriesUrl]
  /\ UNCHANGED <<req, memo>>

Apply(o) ==
  /\ imdbId' = o.imdbId /\ tmdbId' = o.tmdbId
  /\ season' = o.season /\ episode' = o.episode
  /\ streams' = o.streams /\ threw' = o.threw
  /\ responses' = o.responses
  /\ UNCHANGED <<providers, req, memo>>

Pending(variant) == req.variant = variant /\ responses = <<>>

StreamExpress == Pending("express") /\ Apply(HandleExpress(req))

StreamLegacy == Pending("legacy") /\ Apply(HandleLegacy(req))

StreamVercel == Pending("vercel") /\ Apply(HandleVercel(req))

StreamAddon == Pending("addon") /\ Apply(HandleAddon(req))

Health ==
  /\ req.variant \in {"health", "vercel-health"}
  /\ responses = <<>>
  /\ Apply(HandleHealth(req))

\* The response has been sent; the process waits for the next request.
Done ==
  /\ responses # <<>>
  /\ req' = NoReq
  /\ Fresh
  /\ UNCHANGED <<providers, memo>>

Handlers == \/ StreamExpress
            \/ StreamLegacy
            \/ StreamVercel
            \/ StreamAddon
            \/ Health
            \/ Done

Next == ReceiveNominal \/ ReceiveHealth \/ Handlers

\* The program as it runs: template substitution over strings cannot throw.
Spec == Init /\ [][Next]_vars

NextFault == ReceiveFaulty \/ ReceiveHealth \/ Handlers

\* The program with the URL construction of any set of providers failing.
SpecFault == Init /\ [][NextFault]_vars

\* ------------------------------------------------ sequences of requests
\* The ids of the requests whose responses are compared across a sequence.
SeqIdVals ==
  {Str(<<"t", "t", "1">>), Str(TmdbPrefix \o <<"1">>),
   Str(<<"t", "t", "1", ":", "1", ":", "2">>), Str(<<"t", "t", "1", ":", "2">>),
   Str(<<>>), Undefined, ArrayVal}

ReceiveSeq == Receive({{}}, SeqIdVals)

\* As Done, and the request just served is remembered with its responses.
DoneRecord ==
  /\ responses # <<>>
  /\ memo' = [req |-> req, responses |-> responses]
  /\ req' = NoReq
  /\ Fresh
  /\ UNCHANGED providers

NextSeq == ReceiveSeq \/ ReceiveHealth \/ Handlers \/ DoneRecord

\* Any sequence of stream and health requests, with one served request
\* remembered.  A handler has no await, so it runs to completion before the
\* next request is looked at: concurrent requests are served in sequence.
SpecSeq == Init /\ [][NextSeq]_vars
\* ------------------------------------------------ the quality filter alone
LowerChar(c) ==
  CASE c = "K" -> "k" [] c = "P" -> "p" [] c = "H" -> "h"
    [] c = "D" -> "d" [] c = "R" -> "r" [] OTHER -> c

Lower(s) == [i \in 1..Len(s) |-> LowerChar(s[i])]

Labels == {Q1080p, Q4K, <<"4", "k">>, <<"2", "1", "6", "0", "p">>,
           <<"1", "0", "8", "0", "P", " ", "H", "D", "R">>,
           <<"1", "0", "8", "0", "P">>, <<"7", "2", "0", "p">>, <<"H", "D">>}

\* A candidate stream with a declared quality label.
Candidates ==
  {EnrichStreamInfo(Str(l), "Candidate", <<"https://candidate/">>) :
     l \in Labels}

CandidateLists == UNION {[1..n -> Candidates] : n \in 0..MaxCands}

FilterReq == [NoReq EXCEPT !.variant = "filter"]

InitFilter ==
  /\ providers = ProviderTable
  /\ req = FilterReq
  /\ imdbId = Undefined /\ tmdbId = Undefined
  /\ season = Undefined /\ episode = Undefined
  /\ streams \in CandidateLists
  /\ threw = {} /\ responses = <<>>
  /\ memo = NoMemo

\* const hqStreams = streams.filter(...); res.status(200).json(...)
FilterStep ==
  /\ req = FilterReq
  /\ responses = <<>>
  /\ responses' = <<Json("200", "streams", HqFilter(streams))>>
  /\ UNCHANGED <<providers, req, imdbId, tmdbId, season, episode, streams,
                 threw, memo>>

\* The filter applied to arbitrary candidate lists.
SpecFilter == InitFilter /\ [][FilterStep]_vars
\* ======================================================== the claims
Digits == {"0", "1", "2", "3", "4", "5", "6", "7", "8", "9"}

AllDigits(s) == s # <<>> /\ \A i \in 1..Len(s) : s[i] \in Digits

\* tt<digits>
IsTtId(v) == /\ v.k = "str"
             /\ StartsWith(v.s, <<"t", "t">>)
             /\ AllDigits(SubSeq(v.s, 3, Len(v.s)))

Colons(s) == {i \in 1..Len(s) : s[i] = ":"}
FirstColon(s) == CHOOSE i \in Colons(s) : \A j \in Colons(s) : i <= j
LastColon(s) == CHOOSE i \in Colons(s) : \A j \in Colons(s) : j <= i
SegOne(s) == SubSeq(s, 1, FirstColon(s) - 1)
SegTwo(s) == SubSeq(s, FirstColon(s) + 1, LastColon(s) - 1)
SegThree(s) == SubSeq(s, LastColon(s) + 1, Len(s))

\* tt<digits>:<season>:<episode> with non-empty season and episode
IsTtTriple(v) == /\ v.k = "str"
                 /\ Cardinality(Colons(v.s)) = 2
                 /\ IsTtId(Str(SegOne(v.s)))
                 /\ AllDigits(SegTwo(v.s))
                 /\ AllDigits(SegThree(v.s))

\* The request has been handled and its response not yet cleared.
Handled == responses # <<>>

\* A stream request other than a CORS preflight.
StreamRequest == /\ req.variant \in {"express", "legacy", "vercel", "addon"}
                 /\ req.method = "GET"

HttpVariant == req.variant \in {"express", "legacy", "vercel"}

Absent(v) == v = Null \/ v = Undefined

\* A parameter or local that is missing or empty.
Missing(v) == Absent(v) \/ v = Str(<<>>)

Names(list) == [i \in 1..Len(list) |-> list[i].bingeGroup]

AllNames == <<"VidSrc", "GoDrivePlayer", "AutoEmbed", "TMDB-Embed">>

\* The stream of the named provider in a list (the list holds one).
StreamOf(list, name) ==
  list[CHOOSE i \in 1..Len(list) : list[i].bingeGroup = name]

Has(list, name) == \E i \in 1..Len(list) : list[i].bingeGroup = name

\* C1: a movie request with a tt<digits> id is answered 200 with exactly 4
\* streams, one per provider, each URL containing the id (express,
\* serverless and addon handlers; the addon handler sets no status).
C1_MovieFourStreams ==
  (/\ Handled /\ StreamRequest
   /\ req.variant \in {"express", "vercel", "addon"}
   /\ req.type = Movie /\ IsTtId(req.id))
  => /\ Len(responses) = 1
     /\ HttpVariant => responses[1].status = "200"
     /\ responses[1].body \in {"streams", "list"}
     /\ Names(responses[1].streams) = AllNames
     /\ \A i \in 1..Len(responses[1].streams) :
          Includes(responses[1].streams[i].url, req.id.s)

\* C2: an id that starts with tmdb: is parsed by rule 1 only: tmdbId is the
\* id without the prefix, imdbId is the whole id, season and episode stay
\* absent, whatever follows the prefix.
C2_TmdbPrefixRule ==
  (/\ Handled /\ StreamRequest /\ ~Missing(req.type)
   /\ req.id.k = "str" /\ StartsWith(req.id.s, TmdbPrefix))
  => /\ tmdbId = Str(SubSeq(req.id.s, 6, Len(req.id.s)))
     /\ imdbId = req.id
     /\ Absent(season) /\ Absent(episode)
     /\ req.variant \in {"express", "addon"} =>
          season = Null /\ episode = Null

C2_Witness ==
  /\ Handled /\ req.variant = "express" /\ req.type = Series
  /\ req.id = Str(TmdbPrefix \o <<"1", ":", "1", ":", "2">>)
  /\ tmdbId = Str(<<"1", ":", "1", ":", "2">>)

\* C3: a tt<digits> id is its own primary id; alternate id, season and
\* episode are absent.
C3_BareTtId ==
  (/\ Handled /\ StreamRequest /\ ~Missing(req.type) /\ IsTtId(req.id))
  => /\ imdbId = req.id
     /\ Absent(tmdbId) /\ Absent(season) /\ Absent(episode)
     /\ req.variant \in {"express", "addon"} =>
          tmdbId = Null /\ season = Null /\ episode = Null

C3_Witness ==
  /\ Handled /\ req.variant = "express" /\ req.type = Movie
  /\ req.id = Str(<<"t", "t", "1", "2", "1">>)
  /\ imdbId = req.id

\* C4: a series request with id tt<digits>:<season>:<episode> is parsed into
\* its three segments and all four streams come from the series templates
\* with that season and episode (express handler).
C4_SeriesTriple ==
  (/\ Handled /\ req.variant = "express" /\ req.type = Series
   /\ IsTtTriple(req.id))
  => LET a == SegOne(req.id.s)
         s == SegTwo(req.id.s)
         e == SegThree(req.id.s)
         path == <<"/">> \o a \o <<"/">> \o s \o <<"/">> \o e
         out == responses[1].streams
     IN /\ imdbId = Str(a) /\ season = Str(s) /\ episode = Str(e)
        /\ responses[1].status = "200"
        /\ Names(out) = AllNames
        /\ out[1].url = <<"https://vidsrc.to/embed/tv">> \o path
        /\ out[2].url = <<"https://godriveplayer.com/player.php", "?tmdb=">>
                          \o a \o <<"&", "season=">> \o s
                          \o <<"&", "episode=">> \o e
        /\ out[3].url = <<"https://autoembed.cc/embed/tv">> \o path
        /\ out[4].url = <<"https://api.tmdbembed.org/embed/tv">> \o path

C4_Witness ==
  /\ Handled /\ req.variant = "express" /\ req.type = Series
  /\ req.id = Str(<<"t", "t", "1", ":", "1", ":", "2">>)
  /\ season = Str(<<"1">>) /\ episode = Str(<<"2">>)
  /\ Len(responses[1].streams) = 4

\* C5: for a series request with id tt<digits>:<s>:<e> the GoDrivePlayer
\* stream's URL contains season=<s>&episode=<e> (express and addon
\* handlers).
C5_GoDriveSeasonEpisode ==
  (/\ Handled /\ req.variant \in {"express", "addon"} /\ req.type = Series
   /\ IsTtTriple(req.id))
  => /\ Has(responses[1].streams, "GoDrivePlayer")
     /\ Includes(StreamOf(responses[1].streams, "GoDrivePlayer").url,
                 <<"season=">> \o SegTwo(req.id.s) \o <<"&", "episode=">>
                   \o SegThree(req.id.s))
\* The label-based rule of the quality filter as the specification words it:
\* the label, lower-cased, contains 1080p, 4k or 2160p.
SpecKeeps(stream) ==
  LET l == Lower(stream.resolution.s)
  IN \/ Includes(l, <<"1", "0", "8", "0", "p">>)
     \/ Includes(l, <<"4", "k">>)
     \/ Includes(l, <<"2", "1", "6", "0", "p">>)

C7_MissingParam400 ==
  (/\ Handled /\ StreamRequest
   /\ Missing(req.type) \/ Missing(req.id))
  => /\ responses = <<[status |-> "400",
                       body |-> "error: Missing type or id parameter",
                       streams |-> <<>>]>>
     /\ imdbId = Undefined /\ tmdbId = Undefined
     /\ season = Undefined /\ episode = Undefined
     /\ streams = <<>>

\* C7 amended: the HTTP handlers answer such a request 400 with the error
\* body; the addon handler returns an empty list; in every variant nothing
\* is parsed and no candidate stream is built.
C7_MissingParamByVariant ==
  (/\ Handled /\ StreamRequest
   /\ Missing(req.type) \/ Missing(req.id))
  => /\ HttpVariant =>
          responses = <<[status |-> "400",
                         body |-> "error: Missing type or id parameter",
                         streams |-> <<>>]>>
     /\ req.variant = "addon" =>
          responses = <<[status |-> "none", body |-> "list",
                         streams |-> <<>>]>>
     /\ imdbId = Undefined /\ tmdbId = Undefined
     /\ season = Undefined /\ episode = Undefined
     /\ streams = <<>> /\ threw = {}

C7_Witness ==
  /\ Handled /\ req.variant = "vercel" /\ req.method = "GET"
  /\ req.type = Series /\ req.id = Str(<<>>)
  /\ responses[1].status = "400"

\* The stream a provider's try block pushes for the request when it does
\* not throw.
PushedBy(r, p) ==
  CASE r.variant = "express" -> ExpressStream(p, r.type, ParseId(r.id))
    [] r.variant = "addon" -> AddonStream(p, r.type, ParseId(r.id))
    [] OTHER -> LegacyStream(p, r.type, ParseIdLegacy(r.id))

NotThrown(stream) == stream.bingeGroup \notin {ProviderName(p) : p \in threw}

\* C8: whatever set of providers throws while building its URL, the request
\* completes (200 in the HTTP variants) and the list holds exactly the
\* other providers' streams, in order, each as it is built without failure.
C8_FailureIsolation ==
  (/\ Handled /\ StreamRequest /\ ~Missing(req.type) /\ ~Missing(req.id)
   /\ req.id.k = "str")
  => /\ req.faults \subseteq threw
     /\ threw \subseteq ProviderKeys
     /\ req.variant # "addon" => threw = req.faults
     /\ Len(responses) = 1
     /\ HttpVariant => /\ responses[1].status = "200"
                       /\ responses[1].body = "streams"
     /\ responses[1].streams =
          SelectSeq(<<PushedBy(req, "vidsrc"), PushedBy(req, "godrive"),
                      PushedBy(req, "autoembed"), PushedBy(req, "tmdbembed")>>,
                    NotThrown)

C8_Witness ==
  /\ Handled /\ req.variant = "express" /\ req.type = Movie
  /\ req.id = Str(<<"t", "t", "1", "1">>)
  /\ req.faults = {"godrive"}
  /\ Names(responses[1].streams) = <<"VidSrc", "AutoEmbed", "TMDB-Embed">>

\* C9: with type and id present, a failure outside the per-provider try
\* blocks (an id that is not a string) is answered with an empty stream
\* list, status 500 in the HTTP variants and a bare empty list in the addon
\* variant; no stream is built or returned.
C9_TopLevelFailure ==
  (/\ Handled /\ StreamRequest /\ ~Missing(req.type) /\ ~Missing(req.id)
   /\ req.id.k # "str")
  => /\ Len(responses) = 1
     /\ responses[1].streams = <<>>
     /\ HttpVariant => /\ responses[1].status = "500"
                       /\ responses[1].body = "streams"
     /\ req.variant = "addon" => /\ responses[1].status = "none"
                                 /\ responses[1].body = "list"
     /\ streams = <<>>

C9_Witness ==
  /\ Handled /\ req.variant = "vercel" /\ req.method = "GET"
  /\ req.type = Movie /\ req.id = ArrayVal
  /\ "general" \in threw
  /\ responses[1].status = "500"

\* The id forms C10 names: tt<digits>, tmdb:..., or colon-separated with a
\* tt<digits> first segment.
IsC10Id(v) ==
  /\ v.k = "str"
  /\ \/ IsTtId(v)
     \/ StartsWith(v.s, TmdbPrefix)
     \/ Colons(v.s) # {} /\ IsTtId(Str(SegOne(v.s)))

\* C10: a series request whose id yields no season or no episode still gets
\* 4 streams; VidSrc, AutoEmbed and TMDB-Embed use the series base URL and
\* the id only; GoDrivePlayer carries season=1&episode=1 and a usable id
\* (the alternate id if present, else the primary id), never null or
\* undefined (express, serverless and legacy handlers).
C10_SeriesWithoutEpisode ==
  (/\ Handled /\ StreamRequest /\ HttpVariant
   /\ req.type = Series /\ IsC10Id(req.id)
   /\ Missing(season) \/ Missing(episode))
  => LET out == responses[1].streams
         primary == TemplateStr(imdbId)
         usable == TemplateStr(Or(tmdbId, imdbId))
     IN /\ responses[1].status = "200"
        /\ Names(out) = AllNames
        /\ out[1].url = <<"https://vidsrc.to/embed/tv", "/">> \o primary
        /\ out[3].url = <<"https://autoembed.cc/embed/tv", "/">> \o primary
        /\ out[4].url = <<"https://api.tmdbembed.org/embed/tv", "/">>
                          \o usable
        /\ out[2].url = <<"https://godriveplayer.com/player.php", "?tmdb=">>
                          \o usable
                          \o <<"&", "season=", "1", "&", "episode=", "1">>
        /\ ~Includes(out[2].url, <<"n", "u", "l", "l">>)
        /\ ~Includes(out[2].url,
                     <<"u", "n", "d", "e", "f", "i", "n", "e", "d">>)
\* The label a built stream shows: its resolution where it has one, and the
\* quality written into its name or title.
ShowsLabel(stream, q) ==
  /\ Includes(stream.name \o stream.title, q)
  /\ stream.resolution # Undefined => stream.resolution = Str(q)

\* C11: over the fixed provider table the quality filter drops nothing: the
\* list of a 200 response is the list of streams built, in order, and every
\* built stream is labelled 1080p or 4K.
C11_FilterNoOp ==
  (/\ Handled /\ StreamRequest /\ HttpVariant
   /\ ~Missing(req.type) /\ ~Missing(req.id)
   /\ responses[1].status = "200")
  => /\ responses[1].streams = streams
     /\ \A i \in 1..Len(streams) :
          ShowsLabel(streams[i], Q1080p) \/ ShowsLabel(streams[i], Q4K)

C11_Witness ==
  /\ Handled /\ req.variant = "vercel" /\ req.method = "GET"
  /\ req.type = Series /\ req.faults = {"vidsrc"}
  /\ Len(streams) = 3
  /\ streams[3].resolution = Str(Q4K)
  /\ responses[1].streams = streams
\* C14: a movie request with a composite id tt<digits>:<s>:<e> has season
\* and episode parsed but unused: the 4 streams come from the movie
\* templates with the first segment only, and no URL carries a season or
\* episode part (express handler).
C14_MovieCompositeId ==
  (/\ Handled /\ req.variant = "express" /\ req.type = Movie
   /\ IsTtTriple(req.id))
  => LET a == SegOne(req.id.s)
         out == responses[1].streams
     IN /\ imdbId = Str(a)
        /\ season = Str(SegTwo(req.id.s))
        /\ episode = Str(SegThree(req.id.s))
        /\ responses[1].status = "200"
        /\ Names(out) = AllNames
        /\ out[1].url = <<"https://vidsrc.to/embed/movie", "/">> \o a
        /\ out[2].url = <<"https://godriveplayer.com/player.php", "?imdb=">>
                          \o a
        /\ out[3].url = <<"https://autoembed.cc/embed/movie", "/">> \o a
        /\ out[4].url = <<"https://api.tmdbembed.org/embed/movie", "/">> \o a
        /\ \A i \in 1..Len(out) :
             /\ ~Includes(out[i].url, <<":">>)
             /\ ~Includes(out[i].url, <<"season=">>)
             /\ ~Includes(out[i].url, <<"episode=">>)

C14_Witness ==
  /\ Handled /\ req.variant = "express" /\ req.type = Movie
  /\ req.id = Str(<<"t", "t", "1", ":", "2", ":", "1">>)
  /\ season = Str(<<"2">>) /\ episode = Str(<<"1">>)
  /\ Len(responses[1].streams) = 4
\* C13: a stream request to an HTTP variant gets exactly one response: 400
\* if and only if type or id is missing; otherwise 500 when the handler body
\* throws (an id that is not a string) and 200 when it completes.  After the
\* 400 nothing is parsed or built, and no 200 is followed by a 500.
C13_ExactlyOneResponse ==
  (Handled /\ StreamRequest /\ HttpVariant)
  => LET missing == Missing(req.type) \/ Missing(req.id)
         throws == ~missing /\ req.id.k # "str"
     IN /\ Len(responses) = 1
        /\ responses[1].status \in {"200", "400", "500"}
        /\ responses[1].status = "400" <=> missing
        /\ responses[1].status = "500" <=> throws
        /\ responses[1].status = "200" <=> ~missing /\ ~throws
        /\ throws <=> "general" \in threw
        /\ missing => /\ imdbId = Undefined /\ tmdbId = Undefined
                      /\ season = Undefined /\ episode = Undefined
                      /\ streams = <<>> /\ threw = {}
        /\ \A i, j \in 1..Len(responses) :
             i < j => ~(/\ responses[i].status = "200"
                        /\ responses[j].status = "500")

C13_Witness ==
  /\ Handled /\ req.variant = "express" /\ req.type = Undefined
  /\ req.id = Str(<<"t", "t", "1">>)
  /\ Len(responses) = 1 /\ responses[1].status = "400"
\* The request in progress is the remembered request again.
SameRequest ==
  /\ memo.req.variant = req.variant /\ memo.req.method = req.method
  /\ memo.req.type = req.type /\ memo.req.id = req.id

\* C12: no request modifies the provider table, and a stream request gets
\* the responses the same (type, id) got earlier from the same handler,
\* whatever requests were served in between.
C12_RequestsIndependent ==
  /\ providers = ProviderTable
  /\ (Handled /\ req.variant \in {"express", "legacy", "vercel", "addon"}
      /\ SameRequest)
     => responses = memo.responses

C12_Witness ==
  /\ Handled /\ SameRequest
  /\ req.variant = "express" /\ req.type = Series
  /\ req.id = Str(<<"t", "t", "1", ":", "1", ":", "2">>)
  /\ Len(memo.responses) = 1
  /\ Len(responses[1].streams) = 4
  /\ responses = memo.responses
====
